---- MODULE Spec2Model ----
(***************************************************************************)
(* Model of mux-system.py: episode argument parsing, video/audio resource  *)
(* lookup, the per-episode orchestrator mux_episode and the batch runner   *)
(* main.  Python strings are sequences of one-character strings, so that   *)
(* split, strip, isdigit, int, lower and substring tests are computed and  *)
(* not assumed.                                                            *)
(***************************************************************************)
EXTENDS Integers, Sequences, FiniteSets, TLC

VARIABLES
    arg,            \* args.episodes, the episode specification string
    subDir,         \* names of the files in CONFIG.sub_dir
    premux,         \* GlobSearch("*.mkv").paths of the premux dir, in enumeration order
    audioDir,       \* names of the files under the audio dir, in enumeration order
    dryRun,         \* args.dry_run
    caramelExists,  \* subtitle/Caramel.ass exists
    melodyExists,   \* subtitle/Melody.ass exists
    pc,             \* position of the running function
    parsed,         \* outcome of parse_episodes(arg)
    idx,            \* index of the next episode of main's comprehension
    results,        \* the MuxResults collected by main
    calls,          \* the episodes mux_episode was invoked with, in order
    traces,         \* per mux_episode call, the steps it performed, in order
    outDirCreated,  \* out_dir.mkdir has run
    exit,           \* value returned by main ("none" while it has not returned)
    vEp,            \* ep_str argument of a direct _find_video call
    vRes            \* outcome of that call

vars == <<arg, subDir, premux, audioDir, dryRun, caramelExists, melodyExists, pc,
          parsed, idx, results, calls, traces, outDirCreated, exit, vEp, vRes>>

(***************************************************************************)
(* Bounds of the explored inputs.                                          *)
(***************************************************************************)
MaxSegs == 3        \* comma-separated segments of a specification (parser runs)
MaxBatchSegs == 2   \* comma-separated segments of a specification (batch runs)
MaxFiles == 3       \* .mkv files enumerated by a direct _find_video call

(***************************************************************************)
(* Python str primitives.                                                  *)
(***************************************************************************)
DigitChars == <<"0", "1", "2", "3", "4", "5", "6", "7", "8", "9">>
UpperChars == <<"A", "B", "C", "D", "E", "F", "G", "H", "I", "J", "K", "L", "M",
                "N", "O", "P", "Q", "R", "S", "T", "U", "V", "W", "X", "Y", "Z">>
LowerChars == <<"a", "b", "c", "d", "e", "f", "g", "h", "i", "j", "k", "l", "m",
                "n", "o", "p", "q", "r", "s", "t", "u", "v", "w", "x", "y", "z">>

Range(f) == {f[i] : i \in DOMAIN f}

IsDigitChar(c) == c \in Range(DigitChars)

\* str.isdigit(): non-empty and every character a digit
IsDigit(s) == Len(s) > 0 /\ \A i \in 1..Len(s) : IsDigitChar(s[i])

LowerChar(c) ==
    IF c \in Range(UpperChars)
    THEN LowerChars[CHOOSE i \in 1..26 : UpperChars[i] = c]
    ELSE c

\* str.lower()
Lower(s) == [i \in 1..Len(s) |-> LowerChar(s[i])]

\* sub in s
Contains(s, sub) ==
    \E i \in 0..(Len(s) - Len(sub)) : SubSeq(s, i + 1, i + Len(sub)) = sub

EndsWith(s, suf) ==
    Len(s) >= Len(suf) /\ SubSeq(s, Len(s) - Len(suf) + 1, Len(s)) = suf

\* s[:n]
Prefix(s, n) == SubSeq(s, 1, IF Len(s) < n THEN Len(s) ELSE n)

\* str.split(sep) for a one-character separator: "".split(",") is [""]
RECURSIVE Split(_, _)
Split(s, sep) ==
    IF \A i \in 1..Len(s) : s[i] # sep
    THEN <<s>>
    ELSE LET k == CHOOSE i \in 1..Len(s) :
                      s[i] = sep /\ \A j \in 1..(i - 1) : s[j] # sep
         IN  <<SubSeq(s, 1, k - 1)>> \o Split(SubSeq(s, k + 1, Len(s)), sep)

\* str.strip() (blanks)
RECURSIVE Strip(_)
Strip(s) ==
    IF Len(s) = 0 THEN s
    ELSE IF s[1] = " " THEN Strip(Tail(s))
    ELSE IF s[Len(s)] = " " THEN Strip(SubSeq(s, 1, Len(s) - 1))
    ELSE s

\* str.replace(c, "")
RECURSIVE Remove(_, _)
Remove(s, c) ==
    IF Len(s) = 0 THEN s
    ELSE IF s[1] = c THEN Remove(Tail(s), c)
    ELSE <<s[1]>> \o Remove(Tail(s), c)

DigitVal(c) == (CHOOSE i \in 1..10 : DigitChars[i] = c) - 1

\* int(s) for a string of digits (int("") and int of a non-digit raise ValueError)
RECURSIVE IntOf(_)
IntOf(s) ==
    IF Len(s) = 0 THEN 0
    ELSE 10 * IntOf(SubSeq(s, 1, Len(s) - 1)) + DigitVal(s[Len(s)])

\* str(n) for n >= 0
RECURSIVE Str(_)
Str(n) ==
    IF n < 10 THEN <<DigitChars[n + 1]>>
    ELSE Str(n \div 10) \o <<DigitChars[(n % 10) + 1]>>

\* f"{n:02d}" for n >= 0
Fmt02d(n) == IF n < 10 THEN <<"0">> \o Str(n) ELSE Str(n)

\* a < b for str
RECURSIVE StrLess(_, _)
StrLess(a, b) ==
    IF Len(b) = 0 THEN FALSE
    ELSE IF Len(a) = 0 THEN TRUE
    ELSE IF a[1] = b[1] THEN StrLess(Tail(a), Tail(b))
    ELSE DigitVal(a[1]) < DigitVal(b[1])

(***************************************************************************)
(* Episode identifiers: str | int.                                         *)
(***************************************************************************)
IntEp(n) == [isInt |-> TRUE, n |-> n, s |-> <<>>]
StrEp(s) == [isInt |-> FALSE, n |-> 0, s |-> s]

_get_episode_str(episode) ==
    IF episode.isInt THEN Fmt02d(episode.n) ELSE episode.s

(***************************************************************************)
(* parse_episodes                                                          *)
(***************************************************************************)
\* Path.stem of a file name
Stem(name) ==
    LET dots == {i \in 1..Len(name) : name[i] = "."}
    IN  IF dots = {} THEN name
        ELSE LET k == CHOOSE i \in dots : \A j \in dots : j <= i
             IN  IF k > 1 /\ k < Len(name) THEN SubSeq(name, 1, k - 1) ELSE name

\* CONFIG.sub_dir.glob("*.ass")
GlobAss(dir) == {f \in dir : EndsWith(f, <<".", "a", "s", "s">>)}

\* {int(p.stem[:2]) for p in glob if p.stem[:2].isdigit()}
AllEpisodeSet(dir) ==
    {IntOf(Prefix(Stem(f), 2)) : f \in {g \in GlobAss(dir) : IsDigit(Prefix(Stem(g), 2))}}

\* sorted(list(eps)): numeric order
RECURSIVE SortedNumeric(_)
SortedNumeric(S) ==
    IF S = {} THEN <<>>
    ELSE LET m == CHOOSE x \in S : \A y \in S : x <= y
         IN  <<m>> \o SortedNumeric(S \ {m})

\* sorted(list(eps), key=lambda x: str(x))
RECURSIVE SortedByStr(_)
SortedByStr(S) ==
    IF S = {} THEN <<>>
    ELSE LET m == CHOOSE x \in S : \A y \in S \ {x} : StrLess(Str(x), Str(y))
         IN  <<m>> \o SortedByStr(S \ {m})

\* list(range(start, end + 1))
RangeList(start, end) ==
    IF end < start THEN <<>> ELSE [i \in 1..(end - start + 1) |-> IntEp(start + i - 1)]

\* a range parser that reads a missing bound as 0 and ignores surplus bounds
ParseRangeLenient(part) ==
    LET bits == Split(part, "-")
    IN  [raised |-> FALSE, eps |-> RangeList(IntOf(bits[1]), IntOf(bits[2]))]

\* start, end = map(int, part.split("-")); eps.extend(range(start, end + 1))
ParseRange(part) ==
    LET bits == Split(part, "-")
    IN  IF Len(bits) # 2 \/ \E i \in 1..Len(bits) : ~IsDigit(bits[i])
        THEN [raised |-> TRUE, eps |-> <<>>]
        ELSE [raised |-> FALSE, eps |-> RangeList(IntOf(bits[1]), IntOf(bits[2]))]

\* one iteration of the loop over arg.split(",")
ParsePart(rawPart) ==
    LET part == Strip(rawPart)
    IN  IF Contains(part, <<"-">>) /\ IsDigit(Remove(part, "-"))
        THEN ParseRange(part)
        ELSE IF IsDigit(part)
        THEN [raised |-> FALSE, eps |-> <<IntEp(IntOf(part))>>]
        ELSE [raised |-> FALSE, eps |-> <<StrEp(part)>>]

\* the loop: the list eps before de-duplication, or the ValueError
RECURSIVE ExpandParts(_)
ExpandParts(parts) ==
    IF Len(parts) = 0 THEN [raised |-> FALSE, eps |-> <<>>]
    ELSE LET h == ParsePart(Head(parts))
             t == ExpandParts(Tail(parts))
         IN  IF h.raised \/ t.raised
             THEN [raised |-> TRUE, eps |-> <<>>]
             ELSE [raised |-> FALSE, eps |-> h.eps \o t.eps]

\* de-duplication that keeps the last occurrence of each identifier
RECURSIVE DedupKeepLast(_)
DedupKeepLast(eps) ==
    IF Len(eps) = 0 THEN <<>>
    ELSE LET rest == DedupKeepLast(Tail(eps))
         IN  IF \E i \in 1..Len(rest) : rest[i] = Head(eps)
             THEN rest
             ELSE <<Head(eps)>> \o rest

\* list(dict.fromkeys(eps))
RECURSIVE Dedup(_)
Dedup(eps) ==
    IF Len(eps) = 0 THEN <<>>
    ELSE LET front == Dedup(SubSeq(eps, 1, Len(eps) - 1))
             last == eps[Len(eps)]
         IN  IF \E i \in 1..Len(front) : front[i] = last
             THEN front
             ELSE Append(front, last)

sAll == <<"a", "l", "l">>

parse_episodes(a, dir) ==
    IF Lower(a) = sAll
    THEN [raised |-> FALSE, all |-> TRUE, expanded |-> <<>>,
          eps |-> [i \in DOMAIN SortedByStr(AllEpisodeSet(dir)) |->
                      IntEp(SortedByStr(AllEpisodeSet(dir))[i])]]
    ELSE LET x == ExpandParts(Split(a, ","))
         IN  [raised |-> x.raised, all |-> FALSE, expanded |-> x.eps,
              eps |-> Dedup(x.eps)]

(***************************************************************************)
(* String literals of the source and file names of the explored            *)
(* directories.                                                            *)
(***************************************************************************)
mkvDash01 == <<"N", " ", "-", " ", "0", "1", " ", ".", "m", "k", "v">>   \* "N - 01 .mkv"
mkvDash02 == <<"N", " ", "-", " ", "0", "2", " ", ".", "m", "k", "v">>   \* "N - 02 .mkv"
mkvE02 == <<"(", "E", "0", "2", ")", ".", "m", "k", "v">>   \* "(E02).mkv"
mkvS01E01 == <<"S", "0", "1", "E", "0", "1", ".", "m", "k", "v">>   \* "S01E01.mkv"
mkvVacation == <<"V", "a", "c", "a", "t", "i", "o", "n", ".", "m", "k", "v">>   \* "Vacation.mkv"
mkvPlain == <<"x", ".", "m", "k", "v">>   \* "x.mkv"
flac01 == <<"A", "u", "d", "i", "o", "0", "1", ".", "f", "l", "a", "c">>   \* "Audio01.flac"
flac02 == <<"A", "u", "d", "i", "o", "0", "2", ".", "f", "l", "a", "c">>   \* "Audio02.flac"
ass01 == <<"0", "1", ".", "a", "s", "s">>   \* "01.ass"
ass02 == <<"0", "2", ".", "a", "s", "s">>   \* "02.ass"
ass05 == <<"0", "5", ".", "a", "s", "s">>   \* "05.ass"
ass10 == <<"1", "0", ".", "a", "s", "s">>   \* "10.ass"
assMovie == <<"m", "o", "v", "i", "e", ".", "a", "s", "s">>   \* "movie.ass"
ass5 == <<"5", ".", "a", "s", "s">>   \* "5.ass"
ass01b == <<"0", "1", "b", ".", "a", "s", "s">>   \* "01b.ass"
txt03 == <<"0", "3", ".", "t", "x", "t">>   \* "03.txt"
sMovie == <<"m", "o", "v", "i", "e">>   \* "movie"
sVacation == <<"V", "a", "c", "a", "t", "i", "o", "n">>   \* "Vacation"
sAudio == <<"A", "u", "d", "i", "o">>   \* "Audio"
sFlac == <<".", "f", "l", "a", "c">>   \* ".flac"
s01 == <<"0", "1">>   \* "01"

(***************************************************************************)
(* _find_video                                                             *)
(***************************************************************************)
\* f" - {ep_str} " in name or f"E{ep_str})" in name or f"S01E{ep_str}" in name
EpisodeMatch(name, ep_str) ==
    \/ Contains(name, <<" ", "-", " ">> \o ep_str \o <<" ">>)
    \/ Contains(name, <<"E">> \o ep_str \o <<")">>)
    \/ Contains(name, <<"S", "0", "1", "E">> \o ep_str)

NotFound == [found |-> FALSE, path |-> <<>>]
Found(p) == [found |-> TRUE, path |-> p]

\* the first loop: the first path whose name matches
RECURSIVE FirstMatch(_, _)
FirstMatch(paths, ep_str) ==
    IF Len(paths) = 0 THEN NotFound
    ELSE IF EpisodeMatch(Head(paths), ep_str) THEN Found(Head(paths))
    ELSE FirstMatch(Tail(paths), ep_str)

\* the second loop: the first path whose name contains "Vacation"
RECURSIVE FirstVacation(_)
FirstVacation(paths) ==
    IF Len(paths) = 0 THEN NotFound
    ELSE IF Contains(Head(paths), sVacation) THEN Found(Head(paths))
    ELSE FirstVacation(Tail(paths))

\* the fallback without its test of the episode string
MovieFallbackAnyEpisode(ep_str, paths) ==
    IF Len(paths) > 0
    THEN IF Len(paths) = 1 THEN Found(paths[1]) ELSE FirstVacation(paths)
    ELSE NotFound

\* the movie fallback, tried when the first loop returned nothing
MovieFallback(ep_str, paths) ==
    IF (ep_str = s01 \/ Lower(ep_str) = sMovie) /\ Len(paths) > 0
    THEN IF Len(paths) = 1 THEN Found(paths[1]) ELSE FirstVacation(paths)
    ELSE NotFound

_find_video(ep_str, paths) ==
    IF FirstMatch(paths, ep_str).found
    THEN FirstMatch(paths, ep_str)
    ELSE MovieFallback(ep_str, paths)

(***************************************************************************)
(* _find_audio                                                             *)
(***************************************************************************)
\* a file name matches the glob f"*Audio*{search_str}*.flac"
AudioGlobMatch(name, search_str) ==
    /\ EndsWith(name, sFlac)
    /\ \E i \in 0..(Len(name) - 5) :
          /\ SubSeq(name, i + 1, i + 5) = sAudio
          /\ \E j \in (i + 5)..(Len(name) - 5 - Len(search_str)) :
                SubSeq(name, j + 1, j + Len(search_str)) = search_str

\* GlobSearch(pattern).paths
RECURSIVE AudioSearch(_, _)
AudioSearch(files, search_str) ==
    IF Len(files) = 0 THEN <<>>
    ELSE (IF AudioGlobMatch(Head(files), search_str) THEN <<Head(files)>> ELSE <<>>)
         \o AudioSearch(Tail(files), search_str)

_find_audio(ep_str, files) ==
    LET search_str == IF Lower(ep_str) = sMovie THEN s01 ELSE ep_str
        first == AudioSearch(files, search_str)
        retry == IF Len(first) = 0 /\ Lower(ep_str) = sMovie
                 THEN AudioSearch(files, s01)
                 ELSE first
    IN  IF Len(retry) = 0 THEN NotFound ELSE Found(retry[1])

(***************************************************************************)
(* mux_episode                                                             *)
(***************************************************************************)
\* MuxResult(episode, success, error); error <<>> is None
MuxResult(episode, success, error) ==
    [episode |-> episode, success |-> success, error |-> error]

\* the calls of the try block that follow the dry-run return, in source order
NormalSteps ==
    <<"set_default_sub_timesource", "AudioFile", "caramel_sub", "melody_sub",
      "Chapters", "fonts_caramel", "fonts_melody", "Premux", "to_track", "mux">>

\* the collaborator calls of mux_episode, each of which may raise
Collaborators ==
    {"Setup", "set_default_sub_timesource", "AudioFile", "caramel_sub", "melody_sub",
     "Chapters", "fonts_caramel", "fonts_melody", "Premux", "to_track", "mux"}

\* str(e) of the exception one call after the dry-run return raises; <<>> when it
\* returns.  fault is the collaborator call that raises in this call of mux_episode
\* ("none": none does); _get_subtitle_file raises by itself when its path is missing.
StepError(step, carExists, melExists, fault) ==
    IF step = "caramel_sub" /\ ~carExists
    THEN <<"Subtitle file not found at ", "subtitle/Caramel.ass">>
    ELSE IF step = "melody_sub" /\ ~melExists
    THEN <<"Subtitle file not found at ", "subtitle/Melody.ass">>
    ELSE IF step = fault
    THEN <<"error raised by ", step>>
    ELSE <<>>

\* the part of the try block after the dry-run return, ended by the first exception
RunNormal(episode, done, carExists, melExists, fault) ==
    LET failing == {i \in 1..Len(NormalSteps) :
                       StepError(NormalSteps[i], carExists, melExists, fault) # <<>>}
    IN  IF failing = {}
        THEN [escaped |-> FALSE, trace |-> done \o NormalSteps,
              result |-> MuxResult(episode, TRUE, <<>>)]
        ELSE LET k == CHOOSE i \in failing : \A j \in failing : i <= j
             IN  [escaped |-> FALSE, trace |-> done \o SubSeq(NormalSteps, 1, k),
                  result |-> MuxResult(episode, FALSE,
                                 StepError(NormalSteps[k], carExists, melExists, fault))]

\* mux_episode with the dry-run return moved after the subtitle preparation
mux_episode_LateDryRun(episode, dry, paths, files, carExists, melExists, fault) ==
    LET ep_str == _get_episode_str(episode)
        found == <<"Setup", "_find_video", "_find_audio">>
    IN  IF fault = "Setup"
        THEN [escaped |-> TRUE, trace |-> <<"Setup">>,
              result |-> MuxResult(episode, FALSE, <<"error raised by ", "Setup">>)]
        ELSE IF ~_find_video(ep_str, paths).found
        THEN [escaped |-> FALSE, trace |-> <<"Setup", "_find_video">>,
              result |-> MuxResult(episode, FALSE,
                             <<"Video file not found for episode ">> \o ep_str)]
        ELSE IF ~_find_audio(ep_str, files).found
        THEN [escaped |-> FALSE, trace |-> found,
              result |-> MuxResult(episode, FALSE,
                             <<"Audio file not found for episode ">> \o ep_str)]
        ELSE IF dry /\ ~carExists
        THEN [escaped |-> FALSE, trace |-> found \o SubSeq(NormalSteps, 1, 3),
              result |-> MuxResult(episode, FALSE,
                             StepError("caramel_sub", carExists, melExists, fault))]
        ELSE IF dry
        THEN [escaped |-> FALSE, trace |-> found \o SubSeq(NormalSteps, 1, 4),
              result |-> MuxResult(episode, TRUE, <<>>)]
        ELSE RunNormal(episode, found, carExists, melExists, fault)

\* mux_episode with the audio lookup made before the video lookup
mux_episode_AudioFirst(episode, dry, paths, files, carExists, melExists, fault) ==
    LET ep_str == _get_episode_str(episode)
    IN  IF fault = "Setup"
        THEN [escaped |-> TRUE, trace |-> <<"Setup">>,
              result |-> MuxResult(episode, FALSE, <<"error raised by ", "Setup">>)]
        ELSE IF ~_find_audio(ep_str, files).found
        THEN [escaped |-> FALSE, trace |-> <<"Setup", "_find_audio">>,
              result |-> MuxResult(episode, FALSE,
                             <<"Audio file not found for episode ">> \o ep_str)]
        ELSE IF ~_find_video(ep_str, paths).found
        THEN [escaped |-> FALSE, trace |-> <<"Setup", "_find_audio", "_find_video">>,
              result |-> MuxResult(episode, FALSE,
                             <<"Video file not found for episode ">> \o ep_str)]
        ELSE IF dry
        THEN [escaped |-> FALSE, trace |-> <<"Setup", "_find_audio", "_find_video">>,
              result |-> MuxResult(episode, TRUE, <<>>)]
        ELSE RunNormal(episode, <<"Setup", "_find_audio", "_find_video">>,
                       carExists, melExists, fault)

\* One call.  escaped: an exception left the function; trace: the calls made, in order.
mux_episode(episode, dry, paths, files, carExists, melExists, fault) ==
    LET ep_str == _get_episode_str(episode)
    IN  IF fault = "Setup"
        THEN [escaped |-> TRUE, trace |-> <<"Setup">>,
              result |-> MuxResult(episode, FALSE, <<"error raised by ", "Setup">>)]
        ELSE IF ~_find_video(ep_str, paths).found
        THEN [escaped |-> FALSE, trace |-> <<"Setup", "_find_video">>,
              result |-> MuxResult(episode, FALSE,
                             <<"Video file not found for episode ">> \o ep_str)]
        ELSE IF ~_find_audio(ep_str, files).found
        THEN [escaped |-> FALSE, trace |-> <<"Setup", "_find_video", "_find_audio">>,
              result |-> MuxResult(episode, FALSE,
                             <<"Audio file not found for episode ">> \o ep_str)]
        ELSE IF dry
        THEN [escaped |-> FALSE, trace |-> <<"Setup", "_find_video", "_find_audio">>,
              result |-> MuxResult(episode, TRUE, <<>>)]
        ELSE RunNormal(episode, <<"Setup", "_find_video", "_find_audio">>,
                       carExists, melExists, fault)

(***************************************************************************)
(* Explored inputs.                                                        *)
(***************************************************************************)
\* ",".join(segs)
RECURSIVE Join(_)
Join(segs) ==
    IF Len(segs) = 1 THEN segs[1] ELSE segs[1] \o <<",">> \o Join(Tail(segs))

SeqsUpTo(S, n) == UNION {[1..k -> S] : k \in 1..n}

\* segments of the specifications given to the parser
ParseSegs ==
    {<<>>, <<"1">>, <<"2">>, <<"5">>, <<"0", "1">>, <<" ", "2">>, sMovie,
     <<"1", "-", "3">>, <<"1", "-", "2">>, <<"3", "-", "1">>, <<"1", "-">>,
     <<"1", "-", "2", "-", "3">>, <<"-">>}

\* the specifications that select the directory scan
AllSpecs == {sAll, <<"A", "L", "L">>, <<"A", "l", "l">>}

\* file names of the subtitle directory
SubDirNames == {ass01, ass02, ass05, ass10, assMovie, ass5, ass01b, txt03}

\* segments of the specifications given to batch runs
BatchSegs == {<<>>, sMovie, <<"1", "-", "2">>, <<"2", "-", "1">>, <<"1", "-">>}

\* the premux directory listings of batch runs
PremuxListings == {<<mkvPlain>>, <<mkvDash01, mkvDash02>>, <<mkvS01E01, mkvPlain>>}

\* the audio directory listings of batch runs
AudioListings == {<<flac01>>, <<flac01, flac02>>}

\* which of subtitle/Caramel.ass and subtitle/Melody.ass exist in batch runs
SubtitleStates == {<<TRUE, TRUE>>, <<FALSE, TRUE>>, <<TRUE, FALSE>>}

\* file names of the premux directory of direct _find_video calls
MkvNames == {mkvDash01, mkvE02, mkvS01E01, mkvVacation, mkvPlain}

\* episode strings of direct _find_video calls
VideoEps == {s01, <<"0", "2">>, sMovie, <<"M", "o", "v", "i", "e">>, <<>>, <<"1">>}

NoParse == [raised |-> FALSE, all |-> FALSE, expanded |-> <<>>, eps |-> <<>>]

(***************************************************************************)
(* main                                                                    *)
(***************************************************************************)
\* episodes = parse_episodes(args.episodes), the two early returns, out_dir.mkdir
MainParse ==
    /\ pc = "start"
    /\ parsed' = parse_episodes(arg, subDir)
    /\ IF parsed'.raised \/ Len(parsed'.eps) = 0
       THEN /\ exit' = 1
            /\ pc' = "done"
            /\ UNCHANGED outDirCreated
       ELSE /\ outDirCreated' = ~dryRun
            /\ pc' = "batch"
            /\ UNCHANGED exit
    /\ UNCHANGED <<arg, subDir, premux, audioDir, dryRun, caramelExists, melodyExists,
                   idx, results, calls, traces, vEp, vRes>>

\* one element of the list comprehension: mux_episode(ep, ...) for the next episode
MainMux ==
    /\ pc = "batch"
    /\ idx <= Len(parsed.eps)
    /\ \E fault \in Collaborators \cup {"none"} :
          \E r \in {mux_episode(parsed.eps[idx], dryRun, premux, audioDir,
                                 caramelExists, melodyExists, fault)} :
              /\ calls' = Append(calls, parsed.eps[idx])
              /\ traces' = Append(traces, r.trace)
              /\ IF r.escaped
                 THEN /\ pc' = "crashed"
                      /\ UNCHANGED <<results, idx>>
                 ELSE /\ results' = Append(results, r.result)
                      /\ idx' = idx + 1
                      /\ UNCHANGED pc
    /\ UNCHANGED <<arg, subDir, premux, audioDir, dryRun, caramelExists, melodyExists,
                   parsed, outDirCreated, exit, vEp, vRes>>

\* a return statement that reports success when any episode succeeded
MainReturnAnySuccess ==
    /\ pc = "batch"
    /\ idx > Len(parsed.eps)
    /\ LET success_count == Cardinality({i \in 1..Len(results) : results[i].success})
       IN  exit' = IF success_count > 0 THEN 0 ELSE 1
    /\ pc' = "done"
    /\ UNCHANGED <<arg, subDir, premux, audioDir, dryRun, caramelExists, melodyExists,
                   parsed, idx, results, calls, traces, outDirCreated, vEp, vRes>>

\* success_count and the return statement
MainReturn ==
    /\ pc = "batch"
    /\ idx > Len(parsed.eps)
    /\ LET success_count == Cardinality({i \in 1..Len(results) : results[i].success})
       IN  exit' = IF success_count = Len(results) THEN 0 ELSE 1
    /\ pc' = "done"
    /\ UNCHANGED <<arg, subDir, premux, audioDir, dryRun, caramelExists, melodyExists,
                   parsed, idx, results, calls, traces, outDirCreated, vEp, vRes>>

Init ==
    /\ \/ /\ arg \in {Join(s) : s \in SeqsUpTo(BatchSegs, MaxBatchSegs)}
          /\ subDir = {}
       \/ /\ arg = sAll
          /\ subDir \in {{}, {ass01, ass05, assMovie}}
    /\ premux \in PremuxListings
    /\ audioDir \in AudioListings
    /\ dryRun \in BOOLEAN
    /\ \E st \in SubtitleStates : caramelExists = st[1] /\ melodyExists = st[2]
    /\ pc = "start"
    /\ parsed = NoParse
    /\ idx = 1
    /\ results = <<>>
    /\ calls = <<>>
    /\ traces = <<>>
    /\ outDirCreated = FALSE
    /\ exit = "none"
    /\ vEp = <<>>
    /\ vRes = NotFound

Next == MainParse \/ MainMux \/ MainReturn

Spec == Init /\ [][Next]_vars

(***************************************************************************)
(* Direct calls of parse_episodes.                                         *)
(***************************************************************************)
ParseCall ==
    /\ pc = "start"
    /\ parsed' = parse_episodes(arg, subDir)
    /\ pc' = "parsed"
    /\ UNCHANGED <<arg, subDir, premux, audioDir, dryRun, caramelExists, melodyExists,
                   idx, results, calls, traces, outDirCreated, exit, vEp, vRes>>

InitParse ==
    /\ \/ /\ arg \in {Join(s) : s \in SeqsUpTo(ParseSegs, MaxSegs)}
          /\ subDir = {}
       \/ /\ arg \in AllSpecs
          /\ subDir \in SUBSET SubDirNames
    /\ premux = <<>>
    /\ audioDir = <<>>
    /\ dryRun = FALSE
    /\ caramelExists = FALSE
    /\ melodyExists = FALSE
    /\ pc = "start"
    /\ parsed = NoParse
    /\ idx = 1
    /\ results = <<>>
    /\ calls = <<>>
    /\ traces = <<>>
    /\ outDirCreated = FALSE
    /\ exit = "none"
    /\ vEp = <<>>
    /\ vRes = NotFound

NextParse == ParseCall

SpecParse == InitParse /\ [][NextParse]_vars

(***************************************************************************)
(* Direct calls of _find_video.                                            *)
(***************************************************************************)
FindVideoCall ==
    /\ pc = "start"
    /\ vRes' = _find_video(vEp, premux)
    /\ pc' = "returned"
    /\ UNCHANGED <<arg, subDir, premux, audioDir, dryRun, caramelExists, melodyExists,
                   parsed, idx, results, calls, traces, outDirCreated, exit, vEp>>

InitVideo ==
    /\ vEp \in VideoEps
    /\ premux \in {<<>>} \cup SeqsUpTo(MkvNames, MaxFiles)
    /\ arg = <<>>
    /\ subDir = {}
    /\ audioDir = <<>>
    /\ dryRun = FALSE
    /\ caramelExists = FALSE
    /\ melodyExists = FALSE
    /\ pc = "start"
    /\ parsed = NoParse
    /\ idx = 1
    /\ results = <<>>
    /\ calls = <<>>
    /\ traces = <<>>
    /\ outDirCreated = FALSE
    /\ exit = "none"
    /\ vRes = NotFound

NextVideo == FindVideoCall

SpecVideo == InitVideo /\ [][NextVideo]_vars

(***************************************************************************)
(* Properties.                                                             *)
(***************************************************************************)
Min(S) == CHOOSE i \in S : \A j \in S : i <= j

AllSucceeded == \A i \in 1..Len(results) : results[i].success

\* C1: when main returns, the status is 1 if the specification was invalid or
\* expanded to no episode; otherwise one result was collected per episode and
\* the status is 0 exactly when every collected MuxResult has success = true,
\* and 1 when some episode failed.
C1_ExitStatus ==
    pc = "done" =>
        /\ exit \in {0, 1}
        /\ (parsed.raised \/ Len(parsed.eps) = 0) => (exit = 1 /\ results = <<>>)
        /\ (~parsed.raised /\ Len(parsed.eps) > 0) =>
              /\ Len(results) = Len(parsed.eps)
              /\ exit = 0 <=> AllSucceeded
              /\ (\E i \in 1..Len(results) : ~results[i].success) => exit = 1

C1_Witness ==
    /\ pc = "done"
    /\ Len(results) >= 2
    /\ results[1].success
    /\ ~results[2].success
    /\ exit = 1

\* C2: a batch run whose specification is the empty string exits with status 1
\* and never calls mux_episode nor the external mux collaborator.
C2_EmptySpecNoMux ==
    arg = <<>> =>
        /\ calls = <<>>
        /\ \A i \in 1..Len(traces) : "mux" \notin Range(traces[i])
        /\ pc = "done" => exit = 1

\* C3: no call of mux_episode lets an exception escape; every call, whatever
\* step raised, ends by returning a MuxResult, a Failure carrying the message
\* when a step raised.
C3_NoEscape ==
    /\ pc # "crashed"
    /\ Len(results) = Len(calls)

\* C4: in a batch run over a non-empty episode list, once the run has ended
\* mux_episode has been invoked exactly once per episode, in list order, and
\* one result per episode has been collected.
C4_EveryEpisodeOnce ==
    (pc \in {"done", "crashed"} /\ ~parsed.raised /\ Len(parsed.eps) > 0) =>
        /\ calls = parsed.eps
        /\ Len(results) = Len(parsed.eps)

\* a segment that is a hyphen range: it holds a hyphen and otherwise only digits
IsRangeSegment(seg) == Contains(seg, <<"-">>) /\ IsDigit(Remove(seg, "-"))

\* a hyphen range that is two integers around one hyphen
IsTwoIntegers(seg) ==
    \E k \in 1..Len(seg) :
        /\ seg[k] = "-"
        /\ IsDigit(SubSeq(seg, 1, k - 1))
        /\ IsDigit(SubSeq(seg, k + 1, Len(seg)))

Malformed(a) ==
    /\ Lower(a) # sAll
    /\ \E i \in 1..Len(Split(a, ",")) :
          LET seg == Strip(Split(a, ",")[i])
          IN  IsRangeSegment(seg) /\ ~IsTwoIntegers(seg)

\* C5: for a malformed specification parse_episodes raises, main returns 1,
\* mux_episode is never called and the output directory is not created.
C5_MalformedAborts ==
    Malformed(arg) =>
        /\ calls = <<>>
        /\ ~outDirCreated
        /\ pc \in {"start", "done"}
        /\ pc = "done" => (parsed.raised /\ exit = 1)

C5_Witness ==
    /\ arg = <<"1", "-", "2", ",", "1", "-">>
    /\ pc = "done"
    /\ parsed.raised
    /\ exit = 1

FirstIdx(seq, x) == Min({i \in 1..Len(seq) : seq[i] = x})

\* C6: for a specification other than "all" that parses, the returned list
\* holds no two identifiers with the same normalized string, it holds exactly
\* the identifiers of the left-to-right expansion, ordered by first
\* occurrence, a range a-b expands to a, a+1, .., b, "1-3,5,movie" gives
\* [1,2,3,5,"movie"] and "2,1-2" gives [2,1].
C6_OrderedDedup ==
    (pc = "parsed" /\ ~parsed.all /\ ~parsed.raised) =>
        LET eps == parsed.eps
            exp == parsed.expanded
        IN  /\ \A i, j \in 1..Len(eps) :
                  i # j => _get_episode_str(eps[i]) # _get_episode_str(eps[j])
            /\ Range(eps) = Range(exp)
            /\ \A i, j \in 1..Len(eps) :
                  i < j => FirstIdx(exp, eps[i]) < FirstIdx(exp, eps[j])
            /\ \A a, b \in 1..3 :
                  arg = <<DigitChars[a + 1], "-", DigitChars[b + 1]>> =>
                      /\ Len(eps) = (IF b < a THEN 0 ELSE b - a + 1)
                      /\ \A i \in 1..Len(eps) : eps[i] = IntEp(a + i - 1)
            /\ arg = <<"1", "-", "3", ",", "5", ",">> \o sMovie =>
                  eps = <<IntEp(1), IntEp(2), IntEp(3), IntEp(5), StrEp(sMovie)>>
            /\ arg = <<"2", ",", "1", "-", "2">> => eps = <<IntEp(2), IntEp(1)>>

C6_Witness ==
    /\ pc = "parsed"
    /\ arg = <<"2", ",", "1", "-", "2">>
    /\ parsed.expanded = <<IntEp(2), IntEp(1), IntEp(2)>>
    /\ parsed.eps = <<IntEp(2), IntEp(1)>>

\* the calls of the i-th mux_episode call of the run
VideoResolves(i) == _find_video(_get_episode_str(calls[i]), premux).found
AudioResolves(i) == _find_audio(_get_episode_str(calls[i]), audioDir).found

\* C7: in dry-run mode a call whose video and audio lookups both resolve
\* returns Success having made no call after the two lookups: no audio load,
\* no subtitle preparation, no chapters, no fonts, no external mux.
C7_DryRunStopsAfterLookup ==
    dryRun =>
        \A i \in 1..Len(results) :
            (VideoResolves(i) /\ AudioResolves(i)) =>
                /\ results[i] = MuxResult(calls[i], TRUE, <<>>)
                /\ traces[i] = <<"Setup", "_find_video", "_find_audio">>

C7_Witness ==
    /\ dryRun
    /\ ~caramelExists
    /\ Len(results) >= 1
    /\ VideoResolves(1)
    /\ AudioResolves(1)
    /\ results[1].success

\* C8: in either mode a call whose video lookup raises not-found returns a
\* Failure with the video not-found message having made no call after that
\* lookup (the audio lookup included); one whose audio lookup raises returns a
\* Failure with the audio not-found message having made no call after it.
C8_NotFoundHalts ==
    \A i \in 1..Len(results) :
        /\ ~VideoResolves(i) =>
              /\ results[i] = MuxResult(calls[i], FALSE,
                     <<"Video file not found for episode ">> \o _get_episode_str(calls[i]))
              /\ traces[i] = <<"Setup", "_find_video">>
        /\ (VideoResolves(i) /\ ~AudioResolves(i)) =>
              /\ results[i] = MuxResult(calls[i], FALSE,
                     <<"Audio file not found for episode ">> \o _get_episode_str(calls[i]))
              /\ traces[i] = <<"Setup", "_find_video", "_find_audio">>

C8_Witness ==
    /\ ~dryRun
    /\ Len(results) >= 2
    /\ VideoResolves(2) /\ ~AudioResolves(2)
    /\ ~results[2].success
    /\ results[1].success

\* the indices of the files whose name matches the episode string
PatternMatches(ep, paths) ==
    {i \in 1..Len(paths) :
        \/ Contains(paths[i], <<" ", "-", " ">> \o ep \o <<" ">>)
        \/ Contains(paths[i], <<"E">> \o ep \o <<")">>)
        \/ Contains(paths[i], <<"S", "0", "1", "E">> \o ep)}

VacationFiles(paths) == {i \in 1..Len(paths) : Contains(paths[i], sVacation)}

IsMovieEpisode(ep) == ep = s01 \/ Lower(ep) = sMovie

\* C9: _find_video returns the first file in enumeration order that matches a
\* pattern; if none matches and the episode is "01" or "movie" in any case, the
\* only file when exactly one exists, otherwise the first file containing
\* "Vacation"; in every other case it raises not-found.
C9_FindVideo ==
    pc = "returned" =>
        IF PatternMatches(vEp, premux) # {}
        THEN vRes = Found(premux[Min(PatternMatches(vEp, premux))])
        ELSE IF IsMovieEpisode(vEp) /\ Len(premux) = 1
        THEN vRes = Found(premux[1])
        ELSE IF IsMovieEpisode(vEp) /\ VacationFiles(premux) # {}
        THEN vRes = Found(premux[Min(VacationFiles(premux))])
        ELSE vRes = NotFound

C9_Witness ==
    /\ pc = "returned"
    /\ vEp = <<"M", "o", "v", "i", "e">>
    /\ premux = <<mkvPlain, mkvS01E01, mkvVacation>>
    /\ vRes = Found(mkvVacation)

\* the file names ending in ".ass", cut before that ending
AssStems(dir) ==
    {SubSeq(f, 1, Len(f) - 4) : f \in {g \in dir : EndsWith(g, <<".", "a", "s", "s">>)}}

ListedInts == {parsed.eps[i].n : i \in 1..Len(parsed.eps)}

LexicallySorted ==
    /\ \A i \in 1..Len(parsed.eps) : parsed.eps[i].isInt
    /\ \A i, j \in 1..Len(parsed.eps) :
          i < j => StrLess(Str(parsed.eps[i].n), Str(parsed.eps[j].n))

\* C10 as stated: "all" returns the integers of the leading two characters of
\* the files of the subtitle directory whose leading two characters are both
\* digits, every other file excluded, sorted by string comparison.
C10_LeadingTwoDigitsOfEveryFile ==
    (pc = "parsed" /\ parsed.all) =>
        /\ ListedInts =
              {IntOf(SubSeq(f, 1, 2)) :
                  f \in {g \in subDir : Len(g) >= 2 /\ IsDigitChar(g[1]) /\ IsDigitChar(g[2])}}
        /\ LexicallySorted

\* C10 amended: "all", in any letter case, returns the distinct integers given
\* by the leading two characters of the stem (the whole stem when it is one
\* character long) of the *.ass files for which these characters are all
\* digits, every other file excluded, sorted ascending by string comparison of
\* str(identifier); 01.ass, 05.ass, movie.ass give [1,5] and episodes 1, 2, 10
\* come out as [1,10,2].
C10_AllScan ==
    (pc = "parsed" /\ Lower(arg) = sAll) =>
        /\ parsed.all /\ ~parsed.raised
        /\ ListedInts =
              {IntOf(Prefix(s, 2)) : s \in {x \in AssStems(subDir) : IsDigit(Prefix(x, 2))}}
        /\ LexicallySorted
        /\ subDir = {ass01, ass05, assMovie} => parsed.eps = <<IntEp(1), IntEp(5)>>
        /\ subDir = {ass01, ass02, ass10} =>
              parsed.eps = <<IntEp(1), IntEp(10), IntEp(2)>>

C10_Witness ==
    /\ pc = "parsed"
    /\ arg = <<"A", "l", "l">>
    /\ subDir = {ass01, ass02, ass10, ass5, txt03, assMovie}
    /\ parsed.eps = <<IntEp(1), IntEp(10), IntEp(2), IntEp(5)>>
====
